---- MODULE Spec2Model ----
(***************************************************************************)
(* veklo: head tracking that steers the stereo balance.  Two front-ends    *)
(* share the sensing-to-actuation loop: the command-line balancer          *)
(* (head_track_audio.py, class HeadTrackingAudioBalancer) and the menubar  *)
(* application (veklo_menubar_app.py, class VekloMenubarApp).              *)
(*                                                                         *)
(* The module holds, in order: exact arithmetic for Python's floats, the   *)
(* pure functions of the two classes, the threads of each front-end as     *)
(* actions over the objects' fields, and the properties checked.           *)
(***************************************************************************)
EXTENDS Integers, Sequences, FiniteSets, TLC

(***************************************************************************)
(* Natural numbers of any size, as little-endian sequences of limbs in     *)
(* base 2^15 without high zero limbs (zero is << >>).  TLC's integers are  *)
(* 32 bits wide; a limb product stays below 2^30.                          *)
(***************************************************************************)
Base == 2^15

RECURSIVE SmallBitLen(_)
SmallBitLen(n) == IF n = 0 THEN 0 ELSE 1 + SmallBitLen(n \div 2)

LimbBits == SmallBitLen(Base) - 1

RECURSIVE BNorm(_)
BNorm(a) == IF a = << >> THEN a
            ELSE IF a[Len(a)] = 0 THEN BNorm(SubSeq(a, 1, Len(a) - 1)) ELSE a

RECURSIVE BFromInt(_)
BFromInt(n) == IF n = 0 THEN << >> ELSE <<n % Base>> \o BFromInt(n \div Base)

RECURSIVE BToInt(_)
BToInt(a) == IF a = << >> THEN 0 ELSE a[1] + Base * BToInt(Tail(a))

Limb(a, i) == IF i <= Len(a) THEN a[i] ELSE 0

RECURSIVE BCmpAt(_, _, _)
BCmpAt(a, b, i) == IF i = 0 THEN 0
                   ELSE IF a[i] < b[i] THEN -1
                   ELSE IF a[i] > b[i] THEN 1
                   ELSE BCmpAt(a, b, i - 1)

BCmp(a, b) == IF Len(a) < Len(b) THEN -1
              ELSE IF Len(a) > Len(b) THEN 1
              ELSE BCmpAt(a, b, Len(a))

RECURSIVE BAddAt(_, _, _, _)
BAddAt(a, b, i, c) ==
    IF i > Len(a) /\ i > Len(b) THEN (IF c = 0 THEN << >> ELSE <<c>>)
    ELSE LET s == Limb(a, i) + Limb(b, i) + c
         IN  <<s % Base>> \o BAddAt(a, b, i + 1, s \div Base)

BAdd(a, b) == BAddAt(a, b, 1, 0)

RECURSIVE BSubAt(_, _, _, _)
BSubAt(a, b, i, c) ==
    IF i > Len(a) THEN << >>
    ELSE LET s == a[i] - Limb(b, i) - c
         IN  IF s < 0 THEN <<s + Base>> \o BSubAt(a, b, i + 1, 1)
                      ELSE <<s>> \o BSubAt(a, b, i + 1, 0)

\* a - b for a >= b
BSub(a, b) == BNorm(BSubAt(a, b, 1, 0))

RECURSIVE BMulSmallAt(_, _, _, _)
BMulSmallAt(a, d, i, c) ==
    IF i > Len(a) THEN (IF c = 0 THEN << >> ELSE <<c>>)
    ELSE LET s == a[i] * d + c
         IN  <<s % Base>> \o BMulSmallAt(a, d, i + 1, s \div Base)

\* a * d for a limb d < Base
BMulSmall(a, d) == IF d = 0 THEN << >> ELSE BMulSmallAt(a, d, 1, 0)

Zeros(n) == [i \in 1..n |-> 0]

RECURSIVE BMulAt(_, _, _)
BMulAt(a, b, i) ==
    IF i > Len(b) THEN << >>
    ELSE BAdd(IF b[i] = 0 THEN << >> ELSE Zeros(i - 1) \o BMulSmall(a, b[i]),
              BMulAt(a, b, i + 1))

BMul(a, b) == IF a = << >> \/ b = << >> THEN << >> ELSE BMulAt(a, b, 1)

BBitLen(a) == IF a = << >> THEN 0
              ELSE LimbBits * (Len(a) - 1) + SmallBitLen(a[Len(a)])

BOdd(a) == a # << >> /\ a[1] % 2 = 1

\* a * 2^k
BShl(a, k) == IF a = << >> THEN a
              ELSE Zeros(k \div LimbBits) \o BMulSmall(a, 2^(k % LimbBits))

\* a div 2^k
BShr(a, k) ==
    LET q == k \div LimbBits
        r == k % LimbBits
        n == Len(a) - q
    IN  IF n <= 0 THEN << >>
        ELSE BNorm([i \in 1..n |->
                      (a[i + q] \div 2^r)
                      + (Limb(a, i + q + 1) % 2^r) * 2^(LimbBits - r)])

\* a mod 2^k
BLow(a, k) ==
    LET q == k \div LimbBits
        r == k % LimbBits
    IN  IF Len(a) <= q THEN a
        ELSE BNorm(SubSeq(a, 1, q) \o <<a[q + 1] % 2^r>>)

BBit(a, i) == (Limb(a, (i \div LimbBits) + 1) \div 2^(i % LimbBits)) % 2

\* the largest digit d in lo..hi with b * d <= r, by bisection
RECURSIVE BDigit(_, _, _, _)
BDigit(r, b, lo, hi) ==
    IF lo = hi THEN lo
    ELSE LET mid == (lo + hi + 1) \div 2
         IN  IF BCmp(BMulSmall(b, mid), r) <= 0 THEN BDigit(r, b, mid, hi)
             ELSE BDigit(r, b, lo, mid - 1)

\* Long division, one limb of a at a time from the top: <<quotient,
\* remainder>> of limbs i..Len(a) of a by b (b nonzero).  The top limbs of
\* the running remainder and of b bound the next digit.
RECURSIVE BDivAt(_, _, _)
BDivAt(a, b, i) ==
    IF i > Len(a) THEN << << >>, << >> >>
    ELSE LET p   == BDivAt(a, b, i + 1)
             r2  == BNorm(<<a[i]>> \o p[2])
             n   == Len(b)
             top == Limb(r2, n + 1) * Base + Limb(r2, n)
             hi  == IF top \div b[n] < Base THEN top \div b[n] ELSE Base - 1
             d   == BDigit(r2, b, top \div (b[n] + 1), hi)
         IN  <<BNorm(<<d>> \o p[1]), BSub(r2, BMulSmall(b, d))>>

\* a and b are scaled so that the top limb of b is at least Base / 2
BDivMod(a, b) ==
    LET s == LimbBits - SmallBitLen(b[Len(b)])
        p == BDivAt(BShl(a, s), BShl(b, s), 1)
    IN  <<p[1], BShr(p[2], s)>>

RECURSIVE SmallTrailingZeros(_)
SmallTrailingZeros(n) == IF n % 2 = 1 THEN 0 ELSE 1 + SmallTrailingZeros(n \div 2)

\* the number of low zero bits of a nonzero a
RECURSIVE BTrailingZeros(_, _)
BTrailingZeros(a, i) == IF a[i] = 0 THEN LimbBits + BTrailingZeros(a, i + 1)
                        ELSE SmallTrailingZeros(a[i])

(***************************************************************************)
(* Python floats: IEEE-754 binary64 values in the normal range, held as    *)
(* [neg, m, e] for (-1)^neg * m * 2^e with m odd (zero: m = << >>, e = 0,  *)
(* and no sign: 0.0 == -0.0).  Every operation computes the exact result   *)
(* and rounds it to MantBits significant bits, ties to even.               *)
(***************************************************************************)
MantBits == 53

FZero == [neg |-> FALSE, m |-> << >>, e |-> 0]

\* canonical form of the exact value (-1)^neg * m * 2^e
FCanon(neg, m, e) ==
    IF m = << >> THEN FZero
    ELSE LET z == BTrailingZeros(m, 1)
         IN  [neg |-> neg, m |-> BShr(m, z), e |-> e + z]

\* the exact value (-1)^neg * m * 2^e rounded to nearest, ties to even
FRound(neg, m, e) ==
    LET len == BBitLen(m)
    IN  IF len <= MantBits THEN FCanon(neg, m, e)
        ELSE LET sh   == len - MantBits
                 q    == BShr(m, sh)
                 rem  == BLow(m, sh)
                 half == BShl(<<1>>, sh - 1)
                 c    == BCmp(rem, half)
                 up   == c > 0 \/ (c = 0 /\ BOdd(q))
             IN  FCanon(neg, IF up THEN BAdd(q, <<1>>) ELSE q, e + sh)

FFromInt(n) == IF n < 0 THEN FCanon(TRUE, BFromInt(-n), 0)
               ELSE FCanon(FALSE, BFromInt(n), 0)

FNeg(a) == IF a.m = << >> THEN a ELSE [a EXCEPT !.neg = ~a.neg]

\* sign of a - b: -1, 0, 1
FCmp(a, b) ==
    IF a.m = << >> /\ b.m = << >> THEN 0
    ELSE IF a.m = << >> THEN (IF b.neg THEN 1 ELSE -1)
    ELSE IF b.m = << >> THEN (IF a.neg THEN -1 ELSE 1)
    ELSE IF a.neg # b.neg THEN (IF a.neg THEN -1 ELSE 1)
    ELSE LET e == IF a.e < b.e THEN a.e ELSE b.e
             c == BCmp(BShl(a.m, a.e - e), BShl(b.m, b.e - e))
         IN  IF a.neg THEN -c ELSE c

FLt(a, b) == FCmp(a, b) < 0
FLe(a, b) == FCmp(a, b) <= 0
FGt(a, b) == FCmp(a, b) > 0

\* Python's max(a, b) and min(a, b) of two floats
FMax(a, b) == IF FGt(b, a) THEN b ELSE a
FMin(a, b) == IF FLt(b, a) THEN b ELSE a

FAdd(a, b) ==
    IF a.m = << >> THEN b
    ELSE IF b.m = << >> THEN a
    ELSE LET e  == IF a.e < b.e THEN a.e ELSE b.e
             x  == BShl(a.m, a.e - e)
             y  == BShl(b.m, b.e - e)
             c  == BCmp(x, y)
         IN  IF a.neg = b.neg THEN FRound(a.neg, BAdd(x, y), e)
             ELSE IF c = 0 THEN FZero
             ELSE IF c > 0 THEN FRound(a.neg, BSub(x, y), e)
             ELSE FRound(b.neg, BSub(y, x), e)

FSub(a, b) == FAdd(a, FNeg(b))

FMul(a, b) == IF a.m = << >> \/ b.m = << >> THEN FZero
              ELSE FRound(a.neg # b.neg, BMul(a.m, b.m), a.e + b.e)

\* a / b for b nonzero: MantBits + 3 quotient bits and a sticky bit, rounded
FDiv(a, b) ==
    IF a.m = << >> THEN FZero
    ELSE LET k  == MantBits + 3 + BBitLen(b.m) - BBitLen(a.m)
             qr == BDivMod(BShl(a.m, k), b.m)
             st == IF qr[2] = << >> THEN 0 ELSE 1
         IN  FRound(a.neg # b.neg,
                    BAdd(BShl(qr[1], 1), BFromInt(st)), a.e - b.e - k - 1)

\* Python's int(a): truncation toward zero (|a| < 2^30)
FTrunc(a) ==
    IF a.m = << >> THEN 0
    ELSE LET v == IF a.e >= 0 THEN BToInt(BShl(a.m, a.e))
                  ELSE BToInt(BShr(a.m, -a.e))
         IN  IF a.neg THEN -v ELSE v

\* the float literal n/d written in decimal (0.8 is FDec(8, 10))
FDec(n, d) == FDiv(FFromInt(n), FFromInt(d))


(***************************************************************************)
(* Bounds of the model.                                                    *)
(***************************************************************************)
\* events of a session: the commands of the user (terminal lines, preview
\* keys, menu clicks, slider drags, Ctrl+C) and the faults of the camera, the
\* detector and the preview window of head_track_audio.py
MaxCommands == 3
\* tracking threads the menubar application starts in a session
MaxThreads == 2

(***************************************************************************)
(* Values of the program.                                                  *)
(***************************************************************************)
\* Python's None in an integer field (positions and percentages are >= 0)
None == -1

\* Time is counted in units of update_frequency (0.2 seconds), and every
\* timestamp is held as its offset from the present: time.time() is 0, a
\* timestamp taken k units ago is -k.  The program compares its timestamps with update_frequency only, so
\* an offset stops at -Horizon, "longer ago than update_frequency".
now == 0

\* self.update_frequency = 0.2 seconds: one unit of time
update_frequency == 1

Horizon == update_frequency + 1

\* in place of a timestamp: no such time yet (no offset is positive)
Never == now + 1

\* a timestamp (or Never) one unit of time later
Aged(t) == IF t = Never THEN Never ELSE IF t > -Horizon THEN t - 1 ELSE t

RateLimitNone(last_update) == TRUE

\* current_time - self.last_balance_update > self.update_frequency
RateLimitOpen(last_update) == now - last_update > update_frequency

F0_2 == FDec(2, 10)
F0_8 == FDec(8, 10)
F1_9 == FDec(19, 10)
F2_0 == FFromInt(2)
F0_1 == FDec(1, 10)
FOne == FFromInt(1)
FMinusOne == FFromInt(-1)
F50 == FFromInt(50)

\* the widths of the frames the camera delivers (fixed for a session)
FrameWidths == {640}

\* What detectMultiScale returns on a frame: a sequence of boxes (x, y, w, h),
\* each at least minSize = (30, 30).
Box(x, y, w, h) == [x |-> x, y |-> y, w |-> w, h |-> h]
DetectorOutputs ==
    { << >>,
      << Box(370, 100, 100, 100) >>,
      << Box(40, 60, 60, 60), Box(460, 90, 120, 120), Box(200, 50, 120, 120) >> }

\* the balance the system mixer holds when the session starts (0..100)
InitialBalances == {10, 70}

(***************************************************************************)
(* The pure functions of HeadTrackingAudioBalancer, on the fields they     *)
(* read.                                                                   *)
(***************************************************************************)
FirstFace(faces) == faces[1]

\* max(faces, key=lambda x: x[2] * x[3]): the first box of maximal area
LargestFace(faces) ==
    LET area(i) == faces[i].w * faces[i].h
        best == CHOOSE i \in 1..Len(faces) :
                    /\ \A j \in 1..Len(faces) : area(j) <= area(i)
                    /\ \A j \in 1..(i - 1) : area(j) < area(i)
    IN  faces[best]

\* face_center_x = x + w // 2
FaceCenterX(face) == face.x + (face.w \div 2)

CenterOfFrame(frame_width_, calibrated_, center_x) ==
    FDiv(FFromInt(frame_width_), F2_0)

CenterWheneverWritten(frame_width_, calibrated_, center_x) ==
    IF center_x # None THEN FFromInt(center_x)
    ELSE FDiv(FFromInt(frame_width_), F2_0)

\* center_position of calculate_audio_balance
CenterPosition(frame_width_, calibrated_, center_x) ==
    IF calibrated_ /\ center_x # None THEN FFromInt(center_x)
    ELSE FDiv(FFromInt(frame_width_), F2_0)

\* calculate_audio_balance divides by center_position * self.sensitivity
MapperDivisor(frame_width_, calibrated_, center_x, sens) ==
    FMul(CenterPosition(frame_width_, calibrated_, center_x), sens)

unclamped_audio_balance(face_x, frame_width_, calibrated_, center_x, sens) ==
    LET center_position == CenterPosition(frame_width_, calibrated_, center_x)
        offset == FSub(FFromInt(face_x), center_position)
    IN  FNeg(FDiv(offset, FMul(center_position, sens)))

uninverted_audio_balance(face_x, frame_width_, calibrated_, center_x, sens) ==
    LET center_position == CenterPosition(frame_width_, calibrated_, center_x)
        offset == FSub(FFromInt(face_x), center_position)
        raw    == FDiv(offset, FMul(center_position, sens))
    IN  FMax(FMinusOne, FMin(FOne, raw))

half_width_audio_balance(face_x, frame_width_, calibrated_, center_x, sens) ==
    LET center_position == CenterPosition(frame_width_, calibrated_, center_x)
        offset == FSub(FFromInt(face_x), center_position)
        raw    == FDiv(offset, FMul(FDiv(FFromInt(frame_width_), F2_0), sens))
    IN  FNeg(FMax(FMinusOne, FMin(FOne, raw)))

\* calculate_audio_balance(face_x, frame_width)
calculate_audio_balance(face_x, frame_width_, calibrated_, center_x, sens) ==
    LET center_position == CenterPosition(frame_width_, calibrated_, center_x)
        offset  == FSub(FFromInt(face_x), center_position)
        raw     == FDiv(offset, FMul(center_position, sens))
        clamped == FMax(FMinusOne, FMin(FOne, raw))
    IN  FNeg(clamped)

\* balance_percentage = int((balance + 1) * 50)
BalancePercentage(signal) == FTrunc(FMul(FAdd(signal, FOne), F50))

\* balance_normalized = (self.original_system_balance / 50) - 1
BalanceNormalized(original) == FSub(FDiv(FFromInt(original), F50), FOne)

unclamped_sensitivity(sens, increment) == FAdd(sens, increment)

clamped_sensitivity(sens, increment) ==
    FMax(F0_2, FMin(F2_0, FAdd(sens, increment)))

\* adjust_sensitivity(increment): the new self.sensitivity
adjust_sensitivity(sens, increment) ==
    LET s1 == FMax(F0_2, FMin(F2_0, FAdd(sens, increment)))
    IN  IF FGt(s1, F1_9) /\ FGt(increment, FZero) THEN F0_2 ELSE s1

\* get_current_system_balance(): eqMac cannot be queried and reports 50
get_current_system_balance(use_eqmac_, sys_balance_) ==
    IF use_eqmac_ THEN 50 ELSE sys_balance_

(***************************************************************************)
(* VekloMenubarApp.                                                        *)
(***************************************************************************)
\* track_head, lines 212-217: the balance computed in the loop
menubar_balance(face_x, frame_width_, sens) ==
    LET half    == FDiv(FFromInt(frame_width_), F2_0)
        offset  == FSub(FFromInt(face_x), half)
        raw     == FDiv(offset, FMul(half, sens))
        clamped == FMax(FMinusOne, FMin(FOne, raw))
    IN  FNeg(clamped)

\* lines 32-37: the values the balance slider can send (min -1.0, max 1.0)
BalanceSliderValues == {FMinusOne, FDec(3, 10), FOne}

\* lines 41-46: the values the sensitivity slider can send (min 0.2, max 2.0)
SensitivitySliderValues == {F0_2, FDec(5, 10), F2_0}

(***************************************************************************)
(* State.  The fields keep the names they have in the two classes.         *)
(***************************************************************************)
VARIABLES
    frontend,                 \* "cli": head_track_audio.py, "menubar": veklo_menubar_app.py
    running,                  \* self.running
    cap,                      \* self.cap: "none" | "open" | "failed" | "released"
    frame_width,              \* frame_width of track_head (None before the first frame)
    sensitivity,              \* self.sensitivity
    calibrated,               \* self.calibrated
    calibration_center_x,     \* self.calibration_center_x
    original_system_balance,  \* self.original_system_balance
    use_eqmac,                \* self.use_eqmac
    use_cartoon_filter,       \* self.use_cartoon_filter
    show_preview,             \* self.show_preview
    last_face_position,       \* self.last_face_position
    last_balance_update,      \* self.last_balance_update
    balance,                  \* self.balance of the menubar application
    video_window,             \* self.video_window of the menubar application
    tpc,                      \* where each tracking thread stands in track_head
    face_found,               \* len(faces) > 0 in the iteration under way
    exit_cause,               \* why track_head of the command-line front-end left its loop
    ipc,                      \* where the terminal thread stands in handle_terminal_input
    sys_balance,              \* the balance the system mixer holds
    calls,                    \* the actuator invocations so far (a summary)
    ncmd,                     \* commands issued so far
    applied,                  \* the function applied last, when functions are applied one by one; in track_head
                              \* of head_track_audio.py, the call of calculate_audio_balance of the iteration
    current_time              \* current_time of each tracking thread of the menubar application

vars == <<frontend, running, cap, frame_width, sensitivity, calibrated,
          calibration_center_x, original_system_balance, use_eqmac,
          use_cartoon_filter, show_preview, last_face_position,
          last_balance_update, balance, video_window, tpc, face_found,
          exit_cause, ipc, sys_balance, calls, ncmd, applied, current_time>>

\* no function applied yet
NoOp == [op |-> "none", x |-> None, increment |-> FZero, before |-> FZero,
         result |-> FZero, faces |-> << >>]

Threads == 1..MaxThreads

(***************************************************************************)
(* The audio actuator.  set_audio_balance converts the signal to a         *)
(* percentage and hands it to the backend: set_system_balance changes the  *)
(* system mixer, set_eqmac_balance only prints.                            *)
(***************************************************************************)
\* No invocation yet.
NoCall == [op |-> "none", signal |-> FZero, pct |-> None, by |-> "none",
           why |-> "none", eqmac |-> FALSE]

\* calls: `restores` invocations so far were made by the teardown of
\* track_head; `last` is the latest invocation, set_t the time of the latest
\* set_balance and update_t the time of the latest set_balance of the
\* rate-limited update of track_head (Never: none yet).
NoCalls == [restores |-> 0, last |-> NoCall, set_t |-> Never,
            update_t |-> Never]

SetCall(signal, by, why, eqmac) ==
    [op |-> "set", signal |-> signal, pct |-> BalancePercentage(signal),
     by |-> by, why |-> why, eqmac |-> eqmac]

GetCall(value, by, eqmac) ==
    [op |-> "get", signal |-> FZero, pct |-> value,
     by |-> by, why |-> "query", eqmac |-> eqmac]

Invoked(call) ==
    [restores |-> calls.restores + (IF call.why = "restore" THEN 1 ELSE 0),
     last     |-> call,
     set_t    |-> IF call.op = "set" THEN now ELSE calls.set_t,
     update_t |-> IF call.why = "update" THEN now ELSE calls.update_t]

set_audio_balance_startup_mode(signal, by, why) ==
    /\ calls' = Invoked(SetCall(signal, by, why, TRUE))
    /\ sys_balance' = sys_balance

set_audio_balance(signal, by, why) ==
    /\ calls' = Invoked(SetCall(signal, by, why, use_eqmac))
    /\ sys_balance' = IF use_eqmac THEN sys_balance ELSE BalancePercentage(signal)

calibrate_as_offset(face_x, by) ==
    /\ calibration_center_x' = face_x - last_face_position
    /\ calibrated' = TRUE
    /\ original_system_balance' = get_current_system_balance(use_eqmac, sys_balance)
    /\ calls' = Invoked(GetCall(get_current_system_balance(use_eqmac, sys_balance),
                                by, use_eqmac))

\* calibrate(face_x) run to its end by thread `by`
calibrate(face_x, by) ==
    /\ calibration_center_x' = face_x
    /\ calibrated' = TRUE
    /\ original_system_balance' = get_current_system_balance(use_eqmac, sys_balance)
    /\ calls' = Invoked(GetCall(get_current_system_balance(use_eqmac, sys_balance),
                                by, use_eqmac))

(***************************************************************************)
(* HeadTrackingAudioBalancer after __init__ and start(); the camera was    *)
(* opened by the constructor, or could not be.                             *)
(***************************************************************************)
CliInit ==
    /\ frontend = "cli"
    /\ running = TRUE
    /\ cap \in {"open", "failed"}
    /\ frame_width = None
    /\ sensitivity = F0_8
    /\ calibrated = FALSE
    /\ calibration_center_x = None
    /\ original_system_balance = None
    /\ use_eqmac = TRUE
    /\ use_cartoon_filter = TRUE
    /\ show_preview = TRUE
    /\ last_face_position = None
    /\ last_balance_update = 0
    /\ balance = FZero
    /\ video_window = FALSE
    /\ tpc = [t \in Threads |-> IF t = 1 THEN "new" ELSE "none"]
    /\ face_found = FALSE
    /\ exit_cause = "none"
    /\ ipc = "off"
    /\ sys_balance \in InitialBalances
    /\ calls = NoCalls
    /\ ncmd = 0
    /\ applied = NoOp
    /\ current_time = [t \in Threads |-> Never]

CliAt(pc) == frontend = "cli" /\ tpc[1] = pc
CliGoto(pc) == tpc' = [tpc EXCEPT ![1] = pc]

\* track_head, lines 224-232: the camera is not open, or the first read fails
CliStartFails ==
    /\ CliAt("new")
    /\ CliGoto("done")
    /\ UNCHANGED <<frontend, current_time, applied, exit_cause, running, cap, frame_width, sensitivity, calibrated,
                   calibration_center_x, original_system_balance, use_eqmac,
                   use_cartoon_filter, show_preview, last_face_position,
                   last_balance_update, balance, video_window, face_found, ipc,
                   sys_balance, calls, ncmd>>

\* track_head, lines 224-252: first frame read, input thread started
CliStart ==
    /\ CliAt("new")
    /\ cap = "open"
    /\ \E w \in FrameWidths : frame_width' = w
    /\ ipc' = "wait"
    /\ CliGoto("loop")
    /\ UNCHANGED <<frontend, current_time, applied, exit_cause, running, cap, sensitivity, calibrated,
                   calibration_center_x, original_system_balance, use_eqmac,
                   use_cartoon_filter, show_preview, last_face_position,
                   last_balance_update, balance, video_window, face_found,
                   sys_balance, calls, ncmd>>

CliLoopIgnoresStop ==
    /\ CliAt("loop")
    /\ ~running
    /\ CliGoto("preview")
    /\ UNCHANGED <<frontend, current_time, applied, exit_cause, running, cap, frame_width, sensitivity, calibrated,
                   calibration_center_x, original_system_balance, use_eqmac,
                   use_cartoon_filter, show_preview, last_face_position,
                   last_balance_update, balance, video_window, face_found, ipc,
                   sys_balance, calls, ncmd>>

\* lines 255, 381-388: running is false and the loop ends; the finally
\* clause releases the camera
CliLoopExit ==
    /\ CliAt("loop")
    /\ ~running
    /\ CliGoto("restore")
    /\ cap' = "released"
    /\ exit_cause' = "stopped"
    /\ UNCHANGED <<frontend, current_time, applied, running, frame_width, sensitivity, calibrated,
                   calibration_center_x, original_system_balance, use_eqmac,
                   use_cartoon_filter, show_preview, last_face_position,
                   last_balance_update, balance, video_window, face_found, ipc,
                   sys_balance, calls, ncmd>>

\* lines 256-259, 381-388: the read fails and the loop ends; the finally
\* clause releases the camera
CliReadFails ==
    /\ CliAt("loop")
    /\ running
    /\ CliGoto("restore")
    /\ cap' = "released"
    /\ exit_cause' = "read_failed"
    /\ ncmd < MaxCommands
    /\ ncmd' = ncmd + 1
    /\ UNCHANGED <<frontend, current_time, applied, running, frame_width, sensitivity, calibrated,
                   calibration_center_x, original_system_balance, use_eqmac,
                   use_cartoon_filter, show_preview, last_face_position,
                   last_balance_update, balance, video_window, face_found, ipc,
                   sys_balance, calls>>

\* lines 255-267: the frame is read and apply_cartoon_effect raises; the
\* handler of line 266 prints the error and the iteration goes on to the
\* detection with the unfiltered frame.  use_cartoon_filter is not written.
CliFilterFails ==
    /\ CliAt("loop")
    /\ running
    /\ use_cartoon_filter
    /\ ncmd < MaxCommands
    /\ ncmd' = ncmd + 1
    /\ CliGoto("detect")
    /\ UNCHANGED <<frontend, current_time, applied, exit_cause, running, cap, frame_width, sensitivity, calibrated,
                   calibration_center_x, original_system_balance, use_eqmac,
                   use_cartoon_filter, show_preview, last_face_position,
                   last_balance_update, balance, video_window, face_found, ipc,
                   sys_balance, calls>>

\* line 270: the iteration has a frame for the detection: it reads one now
\* (lines 255-259; the filter, if enabled, runs without error), or it read
\* one in the step in which the filter failed
FrameInHand == (CliAt("loop") /\ running) \/ CliAt("detect")

\* lines 270-278, 379: cvtColor or detectMultiScale raises; the handler of
\* line 379 is outside the loop
CliDetectRaises ==
    /\ FrameInHand
    /\ CliGoto("restore")
    /\ cap' = "released"
    /\ exit_cause' = "exception"
    /\ ncmd < MaxCommands
    /\ ncmd' = ncmd + 1
    /\ UNCHANGED <<frontend, current_time, applied, running, frame_width, sensitivity, calibrated,
                   calibration_center_x, original_system_balance, use_eqmac,
                   use_cartoon_filter, show_preview, last_face_position,
                   last_balance_update, balance, video_window, face_found, ipc,
                   sys_balance, calls>>

CliNoFaceForgets ==
    /\ FrameInHand
    /\ << >> \in DetectorOutputs
    /\ face_found' = FALSE
    /\ last_face_position' = None
    /\ applied' = NoOp
    /\ CliGoto("preview")
    /\ UNCHANGED <<frontend, current_time, exit_cause, running, cap, frame_width, sensitivity, calibrated,
                   calibration_center_x, original_system_balance, use_eqmac,
                   use_cartoon_filter, show_preview,
                   last_balance_update, balance, video_window, ipc,
                   sys_balance, calls, ncmd>>

\* lines 256-281: a frame is read (the cartoon filter runs if enabled, and a
\* failure of it is printed and changes nothing) and shows no face
CliNoFace ==
    /\ FrameInHand
    /\ << >> \in DetectorOutputs
    /\ face_found' = FALSE
    /\ applied' = NoOp
    /\ CliGoto("preview")
    /\ UNCHANGED <<frontend, current_time, exit_cause, running, cap, frame_width, sensitivity, calibrated,
                   calibration_center_x, original_system_balance, use_eqmac,
                   use_cartoon_filter, show_preview, last_face_position,
                   last_balance_update, balance, video_window, ipc,
                   sys_balance, calls, ncmd>>

\* lines 256-299: a frame is read and the largest face is tracked; the
\* balance is updated when more than update_frequency has passed since the
\* last update
CliFace(faces) ==
    /\ FrameInHand
    /\ faces # << >>
    /\ LET face_center_x == FaceCenterX(LargestFace(faces))
           gate == RateLimitOpen(last_balance_update)
           zero == MapperDivisor(frame_width, calibrated,
                                 calibration_center_x, sensitivity) = FZero
       IN  /\ last_face_position' = face_center_x
           /\ face_found' = TRUE
           /\ IF ~gate
              THEN /\ CliGoto("preview")
                   /\ applied' = NoOp
                   /\ UNCHANGED <<last_balance_update, calls, sys_balance,
                                  exit_cause, cap>>
              ELSE IF zero
              THEN /\ CliGoto("restore")       \* ZeroDivisionError
                   /\ cap' = "released"
                   /\ exit_cause' = "exception"
                   /\ applied' = NoOp
                   /\ UNCHANGED <<last_balance_update, calls, sys_balance>>
              ELSE /\ applied' = [NoOp EXCEPT
                                     !.op = "calculate_audio_balance",
                                     !.x = face_center_x,
                                     !.result = calculate_audio_balance(
                                         face_center_x, frame_width, calibrated,
                                         calibration_center_x, sensitivity)]
                   /\ set_audio_balance(applied'.result, "tracker", "update")
                   /\ last_balance_update' = now
                   /\ CliGoto("preview")
                   /\ UNCHANGED <<exit_cause, cap>>
    /\ UNCHANGED <<frontend, current_time, running, frame_width, sensitivity, calibrated,
                   calibration_center_x, original_system_balance, use_eqmac,
                   use_cartoon_filter, show_preview, balance, video_window, ipc,
                   ncmd>>

\* lines 302, 376: the preview is off; sleep and loop
CliNoPreview ==
    /\ CliAt("preview")
    /\ ~show_preview
    /\ CliGoto("loop")
    /\ face_found' = FALSE
    /\ UNCHANGED <<frontend, current_time, applied, exit_cause, running, cap, frame_width, sensitivity, calibrated,
                   calibration_center_x, original_system_balance, use_eqmac,
                   use_cartoon_filter, show_preview, last_face_position,
                   last_balance_update, balance, video_window, ipc,
                   sys_balance, calls, ncmd>>

\* lines 321-323: the balance meter is drawn from
\* calculate_audio_balance(self.last_face_position, frame_width), whether or
\* not this frame shows a face.  The value goes to the drawing only (the
\* local `balance` is bound anew before every use), so the call is recorded
\* without it.
BalanceMeter ==
    applied' = [NoOp EXCEPT !.op = "balance_meter", !.x = last_face_position]

\* lines 303-351, 371-374: imshow raises (line 351), and the preview is
\* switched off.  Line 346 reads the local `balance`, bound by line 293 or
\* 323 only once a face has been seen: before that it raises.
CliPreviewFails ==
    /\ CliAt("preview")
    /\ show_preview
    /\ show_preview' = FALSE
    /\ IF last_face_position # None THEN BalanceMeter ELSE applied' = applied
    /\ CliGoto("loop")
    /\ face_found' = FALSE
    /\ last_face_position # None => ncmd < MaxCommands
    /\ ncmd' = IF last_face_position # None THEN ncmd + 1 ELSE ncmd
    /\ UNCHANGED <<frontend, current_time, exit_cause, running, cap, frame_width, sensitivity, calibrated,
                   calibration_center_x, original_system_balance, use_eqmac,
                   use_cartoon_filter, last_face_position,
                   last_balance_update, balance, video_window, ipc,
                   sys_balance, calls>>

PreviewShown == CliAt("preview") /\ show_preview /\ last_face_position # None

\* line 354: waitKey returns no key, or a key the loop ignores ('c' with no
\* face in this frame)
CliNoKey ==
    /\ PreviewShown
    /\ BalanceMeter
    /\ CliGoto("loop")
    /\ face_found' = FALSE
    /\ UNCHANGED <<frontend, current_time, exit_cause, running, cap, frame_width, sensitivity, calibrated,
                   calibration_center_x, original_system_balance, use_eqmac,
                   use_cartoon_filter, show_preview, last_face_position,
                   last_balance_update, balance, video_window, ipc,
                   sys_balance, calls, ncmd>>

\* lines 355-357: key 'q'
CliKeyQuit ==
    /\ PreviewShown
    /\ BalanceMeter
    /\ ncmd < MaxCommands
    /\ ncmd' = ncmd + 1
    /\ running' = FALSE
    /\ CliGoto("restore")
    /\ cap' = "released"
    /\ exit_cause' = "key_q"
    /\ face_found' = FALSE
    /\ UNCHANGED <<frontend, current_time, frame_width, sensitivity, calibrated,
                   calibration_center_x, original_system_balance, use_eqmac,
                   use_cartoon_filter, show_preview, last_face_position,
                   last_balance_update, balance, video_window, ipc,
                   sys_balance, calls>>

\* lines 358-360: key 'c' with a face in this frame: calibrate(face_center_x)
CliKeyCalibrate ==
    /\ PreviewShown
    /\ BalanceMeter
    /\ face_found
    /\ ncmd < MaxCommands
    /\ ncmd' = ncmd + 1
    /\ calibrate(last_face_position, "tracker")
    /\ CliGoto("loop")
    /\ face_found' = FALSE
    /\ UNCHANGED <<frontend, current_time, exit_cause, running, cap, frame_width, sensitivity, use_eqmac,
                   use_cartoon_filter, show_preview, last_face_position,
                   last_balance_update, balance, video_window, ipc,
                   sys_balance>>

\* lines 361-363: key 's'
CliKeySensitivity ==
    /\ PreviewShown
    /\ BalanceMeter
    /\ ncmd < MaxCommands
    /\ ncmd' = ncmd + 1
    /\ sensitivity' = adjust_sensitivity(sensitivity, F0_1)
    /\ CliGoto("loop")
    /\ face_found' = FALSE
    /\ UNCHANGED <<frontend, current_time, exit_cause, running, cap, frame_width, calibrated,
                   calibration_center_x, original_system_balance, use_eqmac,
                   use_cartoon_filter, show_preview, last_face_position,
                   last_balance_update, balance, video_window, ipc,
                   sys_balance, calls>>

CliKeyModeForgetsCalibration ==
    /\ PreviewShown
    /\ BalanceMeter
    /\ ncmd < MaxCommands
    /\ ncmd' = ncmd + 1
    /\ use_eqmac' = ~use_eqmac
    /\ calibrated' = FALSE
    /\ calibration_center_x' = None
    /\ CliGoto("loop")
    /\ face_found' = FALSE
    /\ UNCHANGED <<frontend, current_time, exit_cause, running, cap, frame_width, sensitivity,
                   original_system_balance,
                   use_cartoon_filter, show_preview, last_face_position,
                   last_balance_update, balance, video_window, ipc,
                   sys_balance, calls>>

\* lines 364-366: key 'm'
CliKeyMode ==
    /\ PreviewShown
    /\ BalanceMeter
    /\ ncmd < MaxCommands
    /\ ncmd' = ncmd + 1
    /\ use_eqmac' = ~use_eqmac
    /\ CliGoto("loop")
    /\ face_found' = FALSE
    /\ UNCHANGED <<frontend, current_time, exit_cause, running, cap, frame_width, sensitivity, calibrated,
                   calibration_center_x, original_system_balance,
                   use_cartoon_filter, show_preview, last_face_position,
                   last_balance_update, balance, video_window, ipc,
                   sys_balance, calls>>

\* lines 367-369: key 'f'
CliKeyFilter ==
    /\ PreviewShown
    /\ BalanceMeter
    /\ ncmd < MaxCommands
    /\ ncmd' = ncmd + 1
    /\ use_cartoon_filter' = ~use_cartoon_filter
    /\ CliGoto("loop")
    /\ face_found' = FALSE
    /\ UNCHANGED <<frontend, current_time, exit_cause, running, cap, frame_width, sensitivity, calibrated,
                   calibration_center_x, original_system_balance, use_eqmac,
                   show_preview, last_face_position,
                   last_balance_update, balance, video_window, ipc,
                   sys_balance, calls>>

CliNoRestore ==
    /\ CliAt("restore")
    /\ CliGoto("done")
    /\ UNCHANGED <<frontend, current_time, applied, exit_cause, running, cap,
                   frame_width, sensitivity, calibrated, calibration_center_x,
                   original_system_balance, use_eqmac, use_cartoon_filter,
                   show_preview, last_face_position, last_balance_update,
                   balance, video_window, face_found, ipc, ncmd, sys_balance,
                   calls>>

\* lines 390-397: the original balance, or the center, is set
CliRestore ==
    /\ CliAt("restore")
    /\ set_audio_balance(IF original_system_balance # None
                         THEN BalanceNormalized(original_system_balance)
                         ELSE FZero,
                         "tracker", "restore")
    /\ CliGoto("done")
    /\ UNCHANGED <<frontend, current_time, applied, exit_cause, running, cap, frame_width, sensitivity, calibrated,
                   calibration_center_x, original_system_balance, use_eqmac,
                   use_cartoon_filter, show_preview, last_face_position,
                   last_balance_update, balance, video_window, face_found, ipc,
                   ncmd>>

(***************************************************************************)
(* handle_terminal_input, the daemon thread of the command-line front-end. *)
(***************************************************************************)
\* The thread rests in select (line 406), having found self.running true at
\* line 403.  After a command, or a timeout, it sleeps and tests self.running
\* again.
InputLoop(run) == ipc' = IF run THEN "wait" ELSE "done"

\* lines 406, 421: select times out, or the line is no command
InputNoLine ==
    /\ frontend = "cli"
    /\ ipc = "wait"
    /\ InputLoop(running)
    /\ UNCHANGED <<frontend, current_time, applied, exit_cause, running, cap, frame_width, sensitivity, calibrated,
                   calibration_center_x, original_system_balance, use_eqmac,
                   use_cartoon_filter, show_preview, last_face_position,
                   last_balance_update, balance, video_window, tpc, face_found,
                   sys_balance, calls, ncmd>>

InputLine == frontend = "cli" /\ ipc = "wait" /\ ncmd < MaxCommands

\* lines 409-411: 'q'
InputQuit ==
    /\ InputLine
    /\ ncmd' = ncmd + 1
    /\ running' = FALSE
    /\ InputLoop(FALSE)
    /\ UNCHANGED <<frontend, current_time, applied, exit_cause, cap, frame_width, sensitivity, calibrated,
                   calibration_center_x, original_system_balance, use_eqmac,
                   use_cartoon_filter, show_preview, last_face_position,
                   last_balance_update, balance, video_window, tpc, face_found,
                   sys_balance, calls>>

InputCalibrateStops ==
    /\ InputLine
    /\ last_face_position = None
    /\ ncmd' = ncmd + 1
    /\ running' = FALSE
    /\ InputLoop(FALSE)
    /\ UNCHANGED <<frontend, current_time, applied, exit_cause, cap,
                   frame_width, sensitivity, calibrated, calibration_center_x,
                   original_system_balance, use_eqmac, use_cartoon_filter,
                   show_preview, last_face_position, last_balance_update,
                   balance, video_window, tpc, face_found, sys_balance, calls>>

\* lines 412-413, 172-177: 'c' before any face was detected
InputCalibrateNoFace ==
    /\ InputLine
    /\ last_face_position = None
    /\ ncmd' = ncmd + 1
    /\ InputLoop(running)
    /\ UNCHANGED <<frontend, current_time, applied, exit_cause, running, cap, frame_width, sensitivity, calibrated,
                   calibration_center_x, original_system_balance, use_eqmac,
                   use_cartoon_filter, show_preview, last_face_position,
                   last_balance_update, balance, video_window, tpc, face_found,
                   sys_balance, calls>>

\* lines 412-413, 172-179: 'c': the center is written
InputCalibrateCenter ==
    /\ InputLine
    /\ last_face_position # None
    /\ ncmd' = ncmd + 1
    /\ calibration_center_x' = last_face_position
    /\ ipc' = "cal_flag"
    /\ UNCHANGED <<frontend, current_time, applied, exit_cause, running, cap, frame_width, sensitivity, calibrated,
                   original_system_balance, use_eqmac,
                   use_cartoon_filter, show_preview, last_face_position,
                   last_balance_update, balance, video_window, tpc, face_found,
                   sys_balance, calls>>

\* line 180
InputCalibrateFlag ==
    /\ frontend = "cli"
    /\ ipc = "cal_flag"
    /\ calibrated' = TRUE
    /\ ipc' = "cal_orig"
    /\ UNCHANGED <<frontend, current_time, applied, exit_cause, running, cap, frame_width, sensitivity,
                   calibration_center_x, original_system_balance, use_eqmac,
                   use_cartoon_filter, show_preview, last_face_position,
                   last_balance_update, balance, video_window, tpc, face_found,
                   sys_balance, calls, ncmd>>

\* line 184
InputCalibrateOriginal ==
    /\ frontend = "cli"
    /\ ipc = "cal_orig"
    /\ original_system_balance' = get_current_system_balance(use_eqmac, sys_balance)
    /\ calls' = Invoked(GetCall(get_current_system_balance(use_eqmac, sys_balance),
                                "input", use_eqmac))
    /\ InputLoop(running)
    /\ UNCHANGED <<frontend, current_time, applied, exit_cause, running, cap, frame_width, sensitivity, calibrated,
                   calibration_center_x, use_eqmac,
                   use_cartoon_filter, show_preview, last_face_position,
                   last_balance_update, balance, video_window, tpc, face_found,
                   sys_balance, ncmd>>

\* lines 414-415: 's'
InputSensitivity ==
    /\ InputLine
    /\ ncmd' = ncmd + 1
    /\ sensitivity' = adjust_sensitivity(sensitivity, F0_1)
    /\ InputLoop(running)
    /\ UNCHANGED <<frontend, current_time, applied, exit_cause, running, cap, frame_width, calibrated,
                   calibration_center_x, original_system_balance, use_eqmac,
                   use_cartoon_filter, show_preview, last_face_position,
                   last_balance_update, balance, video_window, tpc, face_found,
                   sys_balance, calls>>

\* lines 416-417: 'm'
InputMode ==
    /\ InputLine
    /\ ncmd' = ncmd + 1
    /\ use_eqmac' = ~use_eqmac
    /\ InputLoop(running)
    /\ UNCHANGED <<frontend, current_time, applied, exit_cause, running, cap, frame_width, sensitivity, calibrated,
                   calibration_center_x, original_system_balance,
                   use_cartoon_filter, show_preview, last_face_position,
                   last_balance_update, balance, video_window, tpc, face_found,
                   sys_balance, calls>>

\* lines 418-419: 'f'
InputFilter ==
    /\ InputLine
    /\ ncmd' = ncmd + 1
    /\ use_cartoon_filter' = ~use_cartoon_filter
    /\ InputLoop(running)
    /\ UNCHANGED <<frontend, current_time, applied, exit_cause, running, cap, frame_width, sensitivity, calibrated,
                   calibration_center_x, original_system_balance, use_eqmac,
                   show_preview, last_face_position,
                   last_balance_update, balance, video_window, tpc, face_found,
                   sys_balance, calls>>

\* lines 435-441: Ctrl+C in the main thread while the tracking thread lives
CliInterrupt ==
    /\ frontend = "cli"
    /\ tpc[1] # "done"
    /\ running
    /\ ncmd < MaxCommands
    /\ ncmd' = ncmd + 1
    /\ running' = FALSE
    /\ UNCHANGED <<frontend, current_time, applied, exit_cause, cap, frame_width, sensitivity, calibrated,
                   calibration_center_x, original_system_balance, use_eqmac,
                   use_cartoon_filter, show_preview, last_face_position,
                   last_balance_update, balance, video_window, tpc, face_found,
                   ipc, sys_balance, calls>>

\* lines 436-437, 251: the tracking thread has ended, the main thread leaves
\* its loop and the process ends, and the daemon thread with it
CliProcessExit ==
    /\ CliAt("done")
    /\ ipc \in {"wait", "cal_flag", "cal_orig"}
    /\ ipc' = "killed"
    /\ UNCHANGED <<frontend, current_time, applied, exit_cause, running, cap, frame_width, sensitivity, calibrated,
                   calibration_center_x, original_system_balance, use_eqmac,
                   use_cartoon_filter, show_preview, last_face_position,
                   last_balance_update, balance, video_window, tpc, face_found,
                   sys_balance, calls, ncmd>>

\* the process has ended
SessionOver ==
    \/ ipc \in {"killed", "quit"}
    \/ ipc = "off" /\ tpc[1] = "done"

\* Time passes while the process lives.
Tick ==
    /\ ~SessionOver
    /\ last_balance_update' = Aged(last_balance_update)
    /\ calls' = [calls EXCEPT !.set_t = Aged(@), !.update_t = Aged(@)]
    /\ current_time' = [t \in Threads |-> Aged(current_time[t])]
    /\ <<last_balance_update, calls, current_time>>'
           # <<last_balance_update, calls, current_time>>
    /\ UNCHANGED <<frontend, applied, exit_cause, running, cap, frame_width, sensitivity, calibrated,
                   calibration_center_x, original_system_balance, use_eqmac,
                   use_cartoon_filter, show_preview, last_face_position,
                   balance, video_window, tpc, face_found,
                   ipc, sys_balance, ncmd>>

(***************************************************************************)
(* VekloMenubarApp after __init__.  The handlers of the menu run in the    *)
(* main thread, one at a time; each Start creates a tracking thread.       *)
(***************************************************************************)
MbInit ==
    /\ frontend = "menubar"
    /\ running = FALSE
    /\ cap = "none"
    /\ frame_width \in FrameWidths
    /\ sensitivity = F0_8
    /\ calibrated = FALSE
    /\ calibration_center_x = None
    /\ original_system_balance = None
    /\ use_eqmac = FALSE            \* set_audio_balance drives the system mixer
    /\ use_cartoon_filter = FALSE
    /\ show_preview = FALSE
    /\ last_face_position = None
    /\ last_balance_update = 0
    /\ balance = FZero
    /\ video_window = FALSE
    /\ tpc = [t \in Threads |-> "none"]
    /\ face_found = FALSE
    /\ exit_cause = "none"
    /\ ipc = "ui"
    /\ sys_balance \in InitialBalances
    /\ calls = NoCalls
    /\ ncmd = 0
    /\ applied = NoOp
    /\ current_time = [t \in Threads |-> Never]

MbCommand == frontend = "menubar" /\ ipc = "ui" /\ ncmd < MaxCommands

\* the thread a Start creates: the first one not yet used
NewThread == CHOOSE t \in Threads : tpc[t] = "none" /\ \A u \in 1..(t - 1) : tpc[u] # "none"

\* toggle_tracking, lines 61-73: Start, and the camera cannot be opened
MbStartNoCamera ==
    /\ MbCommand
    /\ ~running
    /\ cap = "none"
    /\ ncmd' = ncmd + 1
    /\ cap' = "failed"
    /\ UNCHANGED <<frontend, current_time, applied, exit_cause, running, frame_width, sensitivity,
                   calibrated, calibration_center_x, original_system_balance,
                   use_eqmac, use_cartoon_filter, show_preview,
                   last_face_position, last_balance_update, balance,
                   video_window, tpc, face_found, ipc, sys_balance, calls>>

\* toggle_tracking, lines 61-82: Start; the camera is opened if self.cap is
\* None, and a tracking thread is started
MbStart ==
    /\ MbCommand
    /\ ~running
    /\ \E t \in Threads : tpc[t] = "none"
    /\ ncmd' = ncmd + 1
    /\ running' = TRUE
    /\ cap' = IF cap = "none" THEN "open" ELSE cap
    /\ tpc' = [tpc EXCEPT ![NewThread] = "loop"]
    /\ UNCHANGED <<frontend, current_time, applied, exit_cause, frame_width, sensitivity,
                   calibrated, calibration_center_x, original_system_balance,
                   use_eqmac, use_cartoon_filter, show_preview,
                   last_face_position, last_balance_update, balance,
                   video_window, face_found, ipc, sys_balance, calls>>

\* toggle_tracking, lines 83-107: Stop
MbStop ==
    /\ MbCommand
    /\ running
    /\ ncmd' = ncmd + 1
    /\ running' = FALSE
    /\ cap' = "none"
    /\ set_audio_balance(FZero, "ui", "stop")
    /\ video_window' = FALSE
    /\ UNCHANGED <<frontend, current_time, applied, exit_cause, frame_width, sensitivity,
                   calibrated, calibration_center_x, original_system_balance,
                   use_eqmac, use_cartoon_filter, show_preview,
                   last_face_position, last_balance_update, balance,
                   tpc, face_found, ipc>>

\* quit_app, lines 110-119: the application ends, and its daemon threads
\* with it
MbQuit ==
    /\ MbCommand
    /\ ncmd' = ncmd + 1
    /\ ipc' = "quit"
    /\ tpc' = [t \in Threads |-> IF tpc[t] \in {"none", "done"} THEN tpc[t] ELSE "killed"]
    /\ IF running
       THEN /\ running' = FALSE
            /\ cap' = IF cap = "none" THEN cap ELSE "released"
            /\ set_audio_balance(FZero, "ui", "stop")
       ELSE UNCHANGED <<running, cap, calls, sys_balance>>
    /\ UNCHANGED <<frontend, current_time, applied, exit_cause, frame_width, sensitivity,
                   calibrated, calibration_center_x, original_system_balance,
                   use_eqmac, use_cartoon_filter, show_preview,
                   last_face_position, last_balance_update, balance,
                   video_window, face_found>>

\* on_balance_change, lines 121-126
MbBalanceSlider(value) ==
    /\ MbCommand
    /\ ncmd' = ncmd + 1
    /\ balance' = value
    /\ set_audio_balance(value, "ui", "manual")
    /\ UNCHANGED <<frontend, current_time, applied, exit_cause, running, cap, frame_width, sensitivity,
                   calibrated, calibration_center_x, original_system_balance,
                   use_eqmac, use_cartoon_filter, show_preview,
                   last_face_position, last_balance_update,
                   video_window, tpc, face_found, ipc>>

\* on_sensitivity_change, lines 128-131
MbSensitivitySlider(value) ==
    /\ MbCommand
    /\ ncmd' = ncmd + 1
    /\ sensitivity' = value
    /\ UNCHANGED <<frontend, current_time, applied, exit_cause, running, cap, frame_width,
                   calibrated, calibration_center_x, original_system_balance,
                   use_eqmac, use_cartoon_filter, show_preview,
                   last_face_position, last_balance_update, balance,
                   video_window, tpc, face_found, ipc, sys_balance, calls>>

MbAt(t, pc) == frontend = "menubar" /\ tpc[t] = pc
MbGoto(t, pc) == tpc' = [tpc EXCEPT ![t] = pc]

\* track_head, line 159: while self.running
MbLoopTest(t) ==
    /\ MbAt(t, "loop")
    /\ MbGoto(t, IF running THEN "opened" ELSE "finally")
    /\ UNCHANGED <<frontend, current_time, applied, exit_cause, running, cap, frame_width, sensitivity,
                   calibrated, calibration_center_x, original_system_balance,
                   use_eqmac, use_cartoon_filter, show_preview,
                   last_face_position, last_balance_update, balance,
                   video_window, face_found, ipc, sys_balance, calls, ncmd>>

\* lines 160-161: self.cap.isOpened(); self.cap is None raises, and the
\* handler of line 278 is outside the loop
MbIsOpened(t) ==
    /\ MbAt(t, "opened")
    /\ MbGoto(t, IF cap = "open" THEN "read" ELSE "finally")
    /\ UNCHANGED <<frontend, current_time, applied, exit_cause, running, cap, frame_width, sensitivity,
                   calibrated, calibration_center_x, original_system_balance,
                   use_eqmac, use_cartoon_filter, show_preview,
                   last_face_position, last_balance_update, balance,
                   video_window, face_found, ipc, sys_balance, calls, ncmd>>

\* lines 163-165, 175-181, 269, 273-274, 278: the read fails (or self.cap is
\* None, or released), the detector or imshow raises, or ESC is pressed
MbLoopBreaks(t) ==
    /\ MbAt(t, "read")
    /\ MbGoto(t, "finally")
    /\ UNCHANGED <<frontend, current_time, applied, exit_cause, running, cap, frame_width, sensitivity,
                   calibrated, calibration_center_x, original_system_balance,
                   use_eqmac, use_cartoon_filter, show_preview,
                   last_face_position, last_balance_update, balance,
                   video_window, face_found, ipc, sys_balance, calls, ncmd>>

\* lines 163-276: a frame without a face is read and shown
MbNoFace(t) ==
    /\ MbAt(t, "read")
    /\ cap = "open"
    /\ << >> \in DetectorOutputs
    /\ video_window' = TRUE
    /\ MbGoto(t, "loop")
    /\ UNCHANGED <<frontend, current_time, applied, exit_cause, running, cap, frame_width, sensitivity,
                   calibrated, calibration_center_x, original_system_balance,
                   use_eqmac, use_cartoon_filter, show_preview,
                   last_face_position, last_balance_update, balance,
                   face_found, ipc, sys_balance, calls, ncmd>>

\* lines 163-235: a frame with faces is read; when more than
\* update_frequency has passed since the last update, the balance is set
\* unless the user holds the balance slider (highlighted)
MbFace(t, faces, highlighted) ==
    /\ MbAt(t, "read")
    /\ cap = "open"
    /\ faces # << >>
    /\ LET face_center_x == FaceCenterX(LargestFace(faces))
           gate == RateLimitOpen(last_balance_update)
       IN  /\ last_face_position' = face_center_x
           /\ IF ~gate
              THEN /\ video_window' = TRUE
                   /\ MbGoto(t, "loop")
                   /\ UNCHANGED <<current_time, balance, calls, sys_balance>>
              ELSE /\ current_time' = [current_time EXCEPT ![t] = now]
                   /\ MbGoto(t, "stamp")
                   /\ UNCHANGED video_window
                   /\ IF highlighted
                      THEN UNCHANGED <<balance, calls, sys_balance>>
                      ELSE /\ balance' = menubar_balance(face_center_x,
                                                         frame_width, sensitivity)
                           /\ set_audio_balance(
                                  menubar_balance(face_center_x, frame_width,
                                                  sensitivity),
                                  "tracker", "update")
    /\ UNCHANGED <<frontend, applied, exit_cause, running, cap, frame_width, sensitivity,
                   calibrated, calibration_center_x, original_system_balance,
                   use_eqmac, use_cartoon_filter, show_preview,
                   last_balance_update, face_found, ipc, ncmd>>

\* lines 237-276: set_audio_balance has returned and the time taken before
\* it is stored; the frame is shown, or imshow raises or ESC is pressed
MbStamp(t, shown) ==
    /\ MbAt(t, "stamp")
    /\ last_balance_update' = current_time[t]
    /\ current_time' = [current_time EXCEPT ![t] = Never]
    /\ video_window' = IF shown THEN TRUE ELSE video_window
    /\ MbGoto(t, IF shown THEN "loop" ELSE "finally")
    /\ UNCHANGED <<frontend, applied, exit_cause, running, cap, frame_width, sensitivity,
                   calibrated, calibration_center_x, original_system_balance,
                   use_eqmac, use_cartoon_filter, show_preview,
                   last_face_position, balance,
                   face_found, ipc, sys_balance, calls, ncmd>>

\* lines 280-283: the finally clause closes the window
MbFinally(t) ==
    /\ MbAt(t, "finally")
    /\ video_window' = FALSE
    /\ MbGoto(t, "done")
    /\ UNCHANGED <<frontend, current_time, applied, exit_cause, running, cap, frame_width, sensitivity,
                   calibrated, calibration_center_x, original_system_balance,
                   use_eqmac, use_cartoon_filter, show_preview,
                   last_face_position, last_balance_update, balance,
                   face_found, ipc, sys_balance, calls, ncmd>>

MbNext ==
    \/ MbStartNoCamera \/ MbStart \/ MbStop \/ MbQuit
    \/ \E value \in BalanceSliderValues : MbBalanceSlider(value)
    \/ \E value \in SensitivitySliderValues : MbSensitivitySlider(value)
    \/ \E t \in Threads :
          \/ MbLoopTest(t) \/ MbIsOpened(t) \/ MbLoopBreaks(t) \/ MbNoFace(t)
          \/ \E faces \in DetectorOutputs, highlighted \in BOOLEAN :
                MbFace(t, faces, highlighted)
          \/ \E shown \in BOOLEAN : MbStamp(t, shown)
          \/ MbFinally(t)

CliNext ==
    \/ CliStartFails \/ CliStart \/ CliLoopExit \/ CliReadFails
    \/ CliFilterFails \/ CliDetectRaises \/ CliNoFace
    \/ \E faces \in DetectorOutputs : CliFace(faces)
    \/ CliNoPreview \/ CliPreviewFails \/ CliNoKey \/ CliKeyQuit
    \/ CliKeyCalibrate \/ CliKeySensitivity \/ CliKeyMode \/ CliKeyFilter
    \/ CliRestore
    \/ InputNoLine \/ InputQuit \/ InputCalibrateNoFace
    \/ InputCalibrateCenter \/ InputCalibrateFlag \/ InputCalibrateOriginal
    \/ InputSensitivity \/ InputMode \/ InputFilter
    \/ CliInterrupt \/ CliProcessExit

(***************************************************************************)
(* The functions of HeadTrackingAudioBalancer and the inline mapper of     *)
(* VekloMenubarApp, applied one at a time to an object whose fields are    *)
(* drawn from the values below.                                            *)
(***************************************************************************)
UnitWidths == {640, 641}
UnitPositions == {0, 320, 420, 640}
UnitCenters == {15, 420}
UnitSensitivities == {F0_8, F1_9, F2_0}
UnitIncrements == {F0_1, FNeg(F0_1)}
\* what detectMultiScale may return: the same boxes in several orders, two
\* of them of equal area, and one wider than the largest but of smaller area
UnitDetections ==
    LET small == Box(40, 60, 60, 60)
        wide  == Box(100, 100, 200, 60)
        large == Box(460, 90, 120, 120)
        twin  == Box(200, 50, 120, 120)
    IN  { << small, large >>, << large, small >>, << small, wide, large >>,
          << large, twin, small >>, << small, twin, large >> }

UnitInit ==
    /\ frontend = "unit"
    /\ running = FALSE
    /\ cap = "none"
    /\ frame_width \in UnitWidths
    /\ sensitivity \in UnitSensitivities
    /\ calibrated = FALSE
    /\ calibration_center_x = None
    /\ original_system_balance = None
    /\ use_eqmac = TRUE
    /\ use_cartoon_filter = TRUE
    /\ show_preview = TRUE
    /\ last_face_position = None
    /\ last_balance_update = 0
    /\ balance = FZero
    /\ video_window = FALSE
    /\ tpc = [t \in Threads |-> "none"]
    /\ face_found = FALSE
    /\ exit_cause = "none"
    /\ ipc = "off"
    /\ sys_balance = 70
    /\ calls = NoCalls
    /\ ncmd = 0
    /\ applied = NoOp
    /\ current_time = [t \in Threads |-> Never]

\* calculate_audio_balance(face_x, frame_width), lines 89-106
UnitMap(face_x) ==
    /\ frontend = "unit"
    /\ face_x <= frame_width
    /\ applied' = [NoOp EXCEPT
                       !.op = "calculate_audio_balance", !.x = face_x,
                       !.result = calculate_audio_balance(face_x, frame_width,
                                      calibrated, calibration_center_x, sensitivity)]
    /\ UNCHANGED <<frontend, current_time, exit_cause, running, cap, frame_width, sensitivity,
                   calibrated, calibration_center_x, original_system_balance,
                   use_eqmac, use_cartoon_filter, show_preview,
                   last_face_position, last_balance_update, balance,
                   video_window, tpc, face_found, ipc, sys_balance, calls, ncmd>>

\* the mapper of VekloMenubarApp.track_head, lines 212-217
UnitMenubarMap(face_x) ==
    /\ frontend = "unit"
    /\ face_x <= frame_width
    /\ ~calibrated
    /\ applied' = [NoOp EXCEPT
                       !.op = "menubar_balance", !.x = face_x,
                       !.result = menubar_balance(face_x, frame_width, sensitivity)]
    /\ UNCHANGED <<frontend, current_time, exit_cause, running, cap, frame_width, sensitivity,
                   calibrated, calibration_center_x, original_system_balance,
                   use_eqmac, use_cartoon_filter, show_preview,
                   last_face_position, last_balance_update, balance,
                   video_window, tpc, face_found, ipc, sys_balance, calls, ncmd>>

\* track_head, lines 281-288 (and lines 192-202 of veklo_menubar_app.py):
\* the largest face and the position recorded for it
UnitTrack(faces) ==
    /\ frontend = "unit"
    /\ faces # << >>
    /\ applied' = [NoOp EXCEPT !.op = "track", !.faces = faces,
                               !.x = FaceCenterX(LargestFace(faces))]
    /\ UNCHANGED <<frontend, current_time, exit_cause, running, cap, frame_width,
                   sensitivity, calibrated, calibration_center_x,
                   original_system_balance, use_eqmac, use_cartoon_filter,
                   show_preview, last_face_position, last_balance_update,
                   balance, video_window, tpc, face_found, ipc, sys_balance,
                   calls, ncmd>>

\* calibrate(face_x), lines 170-184
UnitCalibrate(face_x) ==
    /\ frontend = "unit"
    /\ face_x <= frame_width
    /\ calibrate(face_x, "unit")
    /\ applied' = [NoOp EXCEPT !.op = "calibrate", !.x = face_x]
    /\ UNCHANGED <<frontend, current_time, exit_cause, running, cap, frame_width, sensitivity,
                   use_eqmac, use_cartoon_filter, show_preview,
                   last_face_position, last_balance_update, balance,
                   video_window, tpc, face_found, ipc, sys_balance, ncmd>>

\* adjust_sensitivity(increment), lines 186-191
UnitAdjust(increment) ==
    /\ frontend = "unit"
    /\ ncmd < MaxCommands
    /\ ncmd' = ncmd + 1
    /\ sensitivity' = adjust_sensitivity(sensitivity, increment)
    /\ applied' = [NoOp EXCEPT !.op = "adjust_sensitivity",
                               !.increment = increment, !.before = sensitivity,
                               !.result = adjust_sensitivity(sensitivity, increment)]
    /\ UNCHANGED <<frontend, current_time, exit_cause, running, cap, frame_width,
                   calibrated, calibration_center_x, original_system_balance,
                   use_eqmac, use_cartoon_filter, show_preview,
                   last_face_position, last_balance_update, balance,
                   video_window, tpc, face_found, ipc, sys_balance, calls>>

\* VekloMenubarApp.on_sensitivity_change, lines 128-131
UnitSlider(value) ==
    /\ frontend = "unit"
    /\ value # sensitivity
    /\ sensitivity' = value
    /\ applied' = [NoOp EXCEPT !.op = "on_sensitivity_change", !.before = sensitivity,
                               !.result = value]
    /\ UNCHANGED <<frontend, current_time, exit_cause, running, cap, frame_width,
                   calibrated, calibration_center_x, original_system_balance,
                   use_eqmac, use_cartoon_filter, show_preview,
                   last_face_position, last_balance_update, balance,
                   video_window, tpc, face_found, ipc, sys_balance, calls, ncmd>>

UnitNext ==
    \/ \E face_x \in UnitPositions : UnitMap(face_x) \/ UnitMenubarMap(face_x)
    \/ \E face_x \in UnitCenters : UnitCalibrate(face_x)
    \/ \E increment \in UnitIncrements : UnitAdjust(increment)
    \/ \E value \in SensitivitySliderValues : UnitSlider(value)
    \/ \E faces \in UnitDetections : UnitTrack(faces)

UnitSpec == UnitInit /\ [][UnitNext]_vars

Init == CliInit \/ MbInit

Next == CliNext \/ MbNext \/ Tick

Spec == Init /\ [][Next]_vars

\* the steps of the thread that start() creates for track_head
TrackHead ==
    \/ CliStartFails \/ CliStart \/ CliLoopExit \/ CliReadFails
    \/ CliFilterFails \/ CliDetectRaises \/ CliNoFace
    \/ \E faces \in DetectorOutputs : CliFace(faces)
    \/ CliNoPreview \/ CliPreviewFails \/ CliNoKey \/ CliKeyQuit
    \/ CliKeyCalibrate \/ CliKeySensitivity \/ CliKeyMode \/ CliKeyFilter
    \/ CliRestore

\* the positions of track_head
TrackHeadPositions == {"new", "loop", "detect", "preview", "restore", "done"}

\* what a step of TrackHead does to the position of track_head: until it has
\* returned, the thread moves to another position
TrackHeadAdvances ==
    /\ frontend = "cli"
    /\ tpc[1] # "done"
    /\ \E pc \in TrackHeadPositions \ {tpc[1]} : CliGoto(pc)

LiveNext == CliNext \/ Tick

\* head_track_audio.py under a fair scheduler: the thread of track_head is
\* not starved, and each of its calls (cap.read, detectMultiScale, waitKey,
\* the actuator's subprocess) returns, so that the thread, until it has
\* returned, eventually takes its next step.  The steps of LiveNext that
\* change the position of track_head are those of TrackHead.
LiveSpec == CliInit /\ [][LiveNext]_vars /\ WF_tpc(TrackHeadAdvances)

(***************************************************************************)
(* Properties.                                                             *)
(***************************************************************************)
\* a step that invokes set_audio_balance
SetBalanceInvoked ==
    /\ calls' # calls
    /\ calls'.last.op = "set"
    /\ calls'.set_t = now

\* a step of track_head that invokes set_audio_balance from its rate-limited
\* update
UpdateInvoked ==
    /\ SetBalanceInvoked
    /\ calls'.last.why = "update"

\* t is further in the past than update_frequency, or is no time at all
LongAgo(t) == t = Never \/ now - t > update_frequency

\* C1, as stated: any two successive invocations of set_balance (those of
\* shutdown and of the menubar's balance slider included) are separated by
\* more than update_interval.
C1_EverySetBalanceIsSeparated ==
    [][SetBalanceInvoked => LongAgo(calls.set_t)]_vars

\* C1, amended: any two successive invocations of set_balance made by the
\* rate-limited update of head_track_audio.track_head are separated by more
\* than update_interval.
C1_UpdatesAreSeparated ==
    [][(frontend = "cli" /\ UpdateInvoked) => LongAgo(calls.update_t)]_vars

\* An update was made while the system mixer was driven, calibrate captured
\* the percentage it left there, and a later update set another one.
C1_TwoUpdates ==
    /\ frontend = "cli"
    /\ original_system_balance \notin ({None, 50} \cup InitialBalances)
    /\ calls.last.why = "update"
    /\ calls.last.pct # original_system_balance
    /\ calls.update_t = now

\* C2, as stated: original_balance is captured on the first successful
\* calibrate only; once captured, no later calibrate changes it.
C2_OriginalCapturedOnce ==
    [][original_system_balance # None
          => original_system_balance' = original_system_balance]_vars

\* C3, as stated: when the session has ended on Quit, the last actuator call
\* is set_balance with the percentage captured as original_balance, or with
\* the neutral value (signal 0, percentage 50) when nothing was captured.
C3_QuitRestoresOriginal ==
    (/\ frontend = "cli"
     /\ tpc[1] = "done"
     /\ exit_cause \in {"stopped", "key_q"}
     /\ calls.last.why = "restore")
        => IF original_system_balance # None
           THEN calls.last.pct = original_system_balance
           ELSE calls.last.pct = 50 /\ calls.last.signal = FZero

\* track_head of head_track_audio.py is in its loop
CliRunning == frontend = "cli" /\ tpc[1] \in {"loop", "detect", "preview"}

\* C4: once track_head of head_track_audio.py is in its loop, every way out
\* of it (Quit, key 'q', a failed read, an exception in an iteration)
\* releases the camera first, then makes exactly one restoring actuator
\* call, and then track_head has ended.
C4_TeardownOnEveryExit ==
    /\ [](CliRunning => cap = "open" /\ calls.restores = 0)
    /\ []((frontend = "cli" /\ tpc[1] = "restore")
             => cap = "released" /\ calls.restores = 0)
    /\ []((frontend = "cli" /\ tpc[1] = "done" /\ frame_width # None)
             => cap = "released" /\ calls.restores = 1)
    /\ [][(CliRunning /\ ~CliRunning') => tpc'[1] = "restore"]_vars
    /\ [][(frontend = "cli" /\ tpc[1] = "restore" /\ tpc'[1] # "restore")
             => /\ tpc'[1] = "done"
                /\ calls'.last.why = "restore"
                /\ calls'.last.op = "set"]_vars

\* An exception ended the loop and track_head has ended after its teardown.
C4_ExceptionTornDown ==
    /\ frontend = "cli"
    /\ tpc[1] = "done"
    /\ exit_cause = "exception"
    /\ cap = "released"
    /\ calls.restores = 1

\* v held within lo..hi
Clamped(v, lo, hi) == IF FLt(v, lo) THEN lo ELSE IF FGt(v, hi) THEN hi ELSE v

\* a mapper has just been applied
Mapped == applied.op \in {"calculate_audio_balance", "menubar_balance"}

\* C5: for every face position within the frame, every frame width and every
\* calibration state and sensitivity, calculate_audio_balance and the mapper
\* of the menubar front-end return a value in [-1, 1].
C5_MapperWithinRange ==
    Mapped => FLe(FMinusOne, applied.result) /\ FLe(applied.result, FOne)

\* The clamp has acted: a face at the right edge of the frame, far from the
\* calibrated center, is mapped to -1.
C5_ClampedAtEdge ==
    /\ applied.op = "calculate_audio_balance"
    /\ calibrated
    /\ applied.x = frame_width
    /\ applied.result = FMinusOne

\* C6: after any sequence of sensitivity commands (adjust_sensitivity of the
\* terminal and of the preview window, the slider of the menubar), the
\* sensitivity lies in [0.2, 2.0].
C6_SensitivityWithinRange ==
    FLe(F0_2, sensitivity) /\ FLe(sensitivity, F2_0)

\* The floor has acted: a decrease at 0.2 left 0.2.
C6_HeldAtFloor ==
    /\ applied.op = "adjust_sensitivity"
    /\ FLt(applied.increment, FZero)
    /\ applied.before = F0_2
    /\ sensitivity = F0_2

\* C7: adjust_sensitivity(delta) sets the sensitivity to
\* clamp(sensitivity + delta, 0.2, 2.0), except that a clamped result above
\* 1.9 with delta > 0 becomes 0.2; so a positive delta from 1.9 or above
\* gives exactly 0.2, and a negative delta never wraps.
C7_AdjustSensitivity ==
    applied.op = "adjust_sensitivity" =>
        LET s == applied.before
            d == applied.increment
            c == Clamped(FAdd(s, d), F0_2, F2_0)
        IN  /\ sensitivity = IF FGt(d, FZero) /\ FGt(c, F1_9) THEN F0_2 ELSE c
            /\ (FGt(d, FZero) /\ FLe(F1_9, s)) => sensitivity = F0_2
            /\ FLt(d, FZero) => /\ sensitivity = c
                                /\ s = F0_2 => sensitivity = F0_2

\* A positive increment from 1.9 or above has wrapped to 0.2.
C7_Wrapped ==
    /\ applied.op = "adjust_sensitivity"
    /\ FGt(applied.increment, FZero)
    /\ FLe(F1_9, applied.before)
    /\ sensitivity = F0_2

\* the mapper on the fields of the present state
MapperNow(face_x) ==
    calculate_audio_balance(face_x, frame_width, calibrated,
                            calibration_center_x, sensitivity)

\* C8: from a successful calibrate(x) until the next one, and whatever the
\* sensitivity, the mapper called with position x returns exactly 0.
C8_CenterMapsToZero ==
    (calibrated /\ calibration_center_x # None)
        => MapperNow(calibration_center_x) = FZero

\* The mapper has been applied to the calibrated center and returned 0.
C8_MappedAtCenter ==
    /\ applied.op = "calculate_audio_balance"
    /\ calibrated
    /\ applied.x = calibration_center_x
    /\ applied.result = FZero

\* C9: for a fixed center and sensitivity the mapper is non-increasing in
\* the position: x1 <= x2 implies balance(x1) >= balance(x2).
C9_MapperNonIncreasing ==
    LET b == [x \in UnitPositions |-> MapperNow(x)]
    IN  \A x1, x2 \in UnitPositions : x1 <= x2 => FLe(b[x2], b[x1])

\* The mapper has been applied between two positions and its result lies
\* strictly between theirs.
C9_StrictlyDecreasing ==
    /\ applied.op = "calculate_audio_balance"
    /\ applied.x = 420
    /\ FLt(applied.result, MapperNow(320))
    /\ FLt(MapperNow(640), applied.result)

\* the center the mapper is to use
ExpectedCenter ==
    IF calibrated THEN FFromInt(calibration_center_x)
    ELSE FDiv(FFromInt(frame_width), F2_0)

RoundedPercentage(signal) ==
    FTrunc(FAdd(FMul(FAdd(signal, FOne), F50), FDec(5, 10)))

\* C11, as stated: set_audio_balance hands the actuator the percentage
\* round((signal + 1) * 50), a number of 0..100.
C11_PercentageIsRounded ==
    calls.last.op = "set"
        => /\ calls.last.pct = RoundedPercentage(calls.last.signal)
           /\ calls.last.pct \in 0..100

\* the latest actuator invocation was made by the thread of track_head, or
\* there was none
ByTracker == calls.last.by \in {"none", "tracker"}

\* C12, as stated: the actuator (set_balance and get_balance) is invoked by
\* the frame-processing unit only, never by the command-input unit or by a
\* handler of the user interface.
C12_ActuatorOnlyFromTracker == ByTracker

\* thread t of the menubar front-end is inside an iteration of its loop
MbInsideIteration(t) == tpc[t] \in {"opened", "read", "stamp"}

\* C13, as stated: the camera handle is released or cleared by the
\* frame-processing unit only, so never by another unit while a tracking
\* thread is inside an iteration.
C13_CameraOwnedByTracker ==
    [][(cap = "open" /\ cap' # "open")
          => \/ frontend = "cli" /\ CliRunning /\ tpc'[1] = "restore"
             \/ frontend = "menubar" /\ \A t \in Threads : ~MbInsideIteration(t)]_vars

\* C14: a command applied by the input thread is visible to track_head by
\* its next iteration: every update computes its balance from the
\* sensitivity and the calibration of that moment and hands it to the backend
\* selected at that moment, and the loop test that finds running false ends
\* the loop.
C14_CommandsVisibleNextIteration ==
    /\ [][(frontend = "cli" /\ UpdateInvoked)
             => /\ calls'.last.signal = MapperNow(last_face_position')
                /\ calls'.last.eqmac = use_eqmac
                /\ sys_balance' = IF use_eqmac THEN sys_balance
                                  ELSE calls'.last.pct]_vars
    /\ [][(CliAt("loop") /\ ~running /\ tpc' # tpc) => tpc'[1] = "restore"]_vars

\* After the commands 'c', 's' and 'm' an update has used the new center,
\* the new sensitivity and the system mixer.
C14_UpdateAfterCommands ==
    /\ frontend = "cli"
    /\ calls.last.why = "update"
    /\ calls.update_t = now
    /\ calibrated
    /\ sensitivity # F0_8
    /\ ~use_eqmac
    /\ ~calls.last.eqmac
    /\ sys_balance = calls.last.pct
    /\ calls.last.signal = MapperNow(last_face_position)
    /\ calls.last.signal #
          calculate_audio_balance(last_face_position, frame_width, FALSE, None, F0_8)

\* C15: calibrate() with no position before any face was detected changes
\* neither calibrated, the center, original_balance, the sensitivity nor the
\* running flag, invokes no actuator, and both loops go on.
C15_CalibrateWithoutPositionIsNoOp ==
    [][InputCalibrateNoFace
          => /\ UNCHANGED <<calibrated, calibration_center_x,
                            original_system_balance, sensitivity, running,
                            calls, sys_balance, tpc, cap, use_eqmac>>
             /\ running => ipc' = "wait"]_vars

\* The only command of the session so far was such a calibrate: nothing a
\* command or a fault can change has changed, and track_head is in its loop.
C15_CalibrateIgnored ==
    /\ CliRunning
    /\ ncmd = 1
    /\ last_face_position = None
    /\ running
    /\ ipc = "wait"
    /\ ~calibrated
    /\ calibration_center_x = None
    /\ original_system_balance = None
    /\ sensitivity = F0_8
    /\ use_eqmac
    /\ use_cartoon_filter
    /\ calls = NoCalls

\* C16, as stated: when the camera cannot be opened or the first frame
\* cannot be read, the start attempt fails without entering Running: no
\* iteration of the loop runs, the input thread is not started and no
\* actuator is invoked.
C16_FailedStartNeverRuns ==
    /\ (frontend = "cli" /\ frame_width = None)
          => /\ tpc[1] \in {"new", "done"}
             /\ ipc = "off"
             /\ calls = NoCalls
    /\ (frontend = "menubar" /\ cap = "failed")
          => /\ ~running
             /\ \A t \in Threads : ~MbInsideIteration(t)

\* C17, as stated: when the detector raises on a frame, that frame alone is
\* skipped: the loop stays Running with its camera, no actuator is invoked,
\* and the calibration and the last-known position are unchanged.
C17_DetectorFailureSkipsFrame ==
    [][CliDetectRaises
          => /\ CliRunning'
             /\ UNCHANGED <<cap, running, calls, sys_balance, calibrated,
                            calibration_center_x, last_face_position>>]_vars

\* C18, as stated: in the menubar front-end the tracking thread that ends
\* with the camera still open (a frame could not be read while running)
\* leaves the camera released, the balance restored by the actuator and the
\* running flag false.
C18_MenubarReadFailureRestores ==
    [][(/\ frontend = "menubar"
        /\ cap = "open"
        /\ \E t \in Threads :
              /\ tpc[t] = "finally" /\ tpc'[t] = "done"
              /\ \A u \in Threads \ {t} : tpc[u] \in {"none", "done"})
          => /\ ~running'
             /\ cap' \in {"none", "released"}
             /\ calls'.last.op = "set"]_vars

\* C19: when the detector returns boxes, whatever their order, the tracked
\* box is one whose area w * h is maximal among them, and the position
\* recorded is its x + w div 2.
C19_LargestFaceTracked ==
    applied.op = "track" =>
        LET faces == applied.faces
            area(i) == faces[i].w * faces[i].h
        IN  \E i \in 1..Len(faces) :
                /\ \A j \in 1..Len(faces) : area(j) <= area(i)
                /\ applied.x = faces[i].x + (faces[i].w \div 2)

\* Three boxes were returned, the first the smallest and the second the
\* widest, and the position recorded is the center of the third, the largest.
C19_LargestIsLast ==
    /\ applied.op = "track"
    /\ Len(applied.faces) = 3
    /\ applied.faces[1].w < applied.faces[3].w
    /\ applied.faces[2].w > applied.faces[3].w
    /\ applied.faces[2].w * applied.faces[2].h
          < applied.faces[3].w * applied.faces[3].h
    /\ applied.x = applied.faces[3].x + (applied.faces[3].w \div 2)
    /\ applied.x = 520

\* an iteration of track_head of head_track_audio.py that found no face is
\* at its preview and takes its next step
CliNoFacePreviewStep ==
    frontend = "cli" /\ tpc[1] = "preview" /\ ~face_found /\ tpc' # tpc

\* the actuator is not invoked, and the last-known position and the time of
\* the last update stay as they are
NoFaceFrame ==
    UNCHANGED <<calls, sys_balance, last_face_position, last_balance_update>>

\* C20, as stated: an iteration in which no face is detected invokes neither
\* the mapper nor the actuator, and leaves the last-known position and
\* last_update_time unchanged.
C20_NoFaceNoMapperNoActuator ==
    /\ [][(CliNoFace \/ \E t \in Threads : MbNoFace(t))
             => NoFaceFrame /\ applied'.op = "none"]_vars
    /\ [][CliNoFacePreviewStep => NoFaceFrame /\ applied'.op = "none"]_vars

\* C20, amended: an iteration in which no face is detected invokes no
\* actuator and leaves the last-known position and last_update_time
\* unchanged; it applies the mapper to nothing but the balance meter of the
\* preview, drawn for the last-known position.
C20_NoFaceNoActuator ==
    /\ [][(CliNoFace \/ \E t \in Threads : MbNoFace(t))
             => NoFaceFrame /\ applied'.op = "none"]_vars
    /\ [][CliNoFacePreviewStep
             => /\ NoFaceFrame
                /\ applied'.op \in {"none", "balance_meter"}
                /\ applied'.op = "balance_meter"
                      => /\ show_preview
                         /\ applied'.x = last_face_position
                         /\ applied'.x # None]_vars

\* A frame without a face follows an update: the position of the update is
\* still the last-known one.
C20_PositionRetained ==
    /\ frontend = "cli"
    /\ tpc[1] = "preview"
    /\ ~face_found
    /\ show_preview
    /\ calls.last.why = "update"
    /\ last_face_position # None
    /\ applied.op = "none"

MidpointBalance(face_x) ==
    LET midpoint == FDiv(FFromInt(frame_width), F2_0)
        raw      == FDiv(FSub(FFromInt(face_x), midpoint),
                         FMul(midpoint, sensitivity))
    IN  FNeg(FMax(FMinusOne, FMin(FOne, raw)))

CalibrationState ==
    <<calibration_center_x, calibrated, sensitivity, original_system_balance>>

\* a step of calibrate, from the preview key or from the terminal (where its
\* three writes are three steps)
CalibrateStep ==
    \/ CliKeyCalibrate
    \/ InputCalibrateCenter
    \/ InputCalibrateFlag
    \/ InputCalibrateOriginal

\* a step of adjust_sensitivity, from the preview key or from the terminal,
\* or of the sensitivity slider of the menubar
AdjustSensitivityStep ==
    \/ CliKeySensitivity
    \/ InputSensitivity
    \/ \E value \in SensitivitySliderValues : MbSensitivitySlider(value)

\* C22: the calibration state (center, calibrated, sensitivity,
\* original_balance) changes only in a step of Calibrate or of
\* AdjustSensitivity; every other step (the toggles of the audio mode and of
\* the filter, Quit, a frame iteration with or without a face or an update,
\* the teardown) leaves the four fields as they are.
C22_OnlyCalibrateAndSensitivityMutate ==
    [][(CalibrationState' # CalibrationState)
          => (CalibrateStep \/ AdjustSensitivityStep)]_vars

\* C22: a session was calibrated, had its audio mode toggled, was quit and
\* torn down, and the calibration state is the one Calibrate left.
C22_CalibrationSurvivesSession ==
    /\ frontend = "cli"
    /\ tpc[1] = "done"
    /\ exit_cause = "key_q"
    /\ calls.last.why = "restore"
    /\ ~use_eqmac
    /\ calibrated
    /\ calibration_center_x # None
    /\ original_system_balance # None
    /\ sensitivity = F0_8

\* C25, as stated: in the menubar front-end at most one tracking thread is
\* inside the frame loop, whatever the Start and Stop clicks.
C25_OneTrackingThread ==
    \A t, u \in Threads :
        (MbInsideIteration(t) /\ MbInsideIteration(u)) => t = u

\* C26, as stated: once track_head of head_track_audio.py has finished its
\* teardown, whatever ended the loop, the running flag is false and no
\* command is applied any more: the calibration, the sensitivity and the
\* record of the actuator invocations stay as they are.
C26_NothingAfterTeardown ==
    /\ []((frontend = "cli" /\ tpc[1] = "done" /\ frame_width # None)
             => ~running)
    /\ [][(frontend = "cli" /\ tpc[1] = "done" /\ frame_width # None)
             => /\ UNCHANGED <<calibrated, calibration_center_x,
                               original_system_balance, sensitivity>>
                /\ calls'.last = calls.last]_vars

\* C27: the divisor of the mapper, center * sensitivity, is strictly
\* positive in every state: a position taken from a detected face, and so a
\* calibration center, is positive, frame_width / 2 is positive, and the
\* sensitivity is at least 0.2.
C27_DivisorPositive ==
    /\ calibration_center_x # None => calibration_center_x > 0
    /\ last_face_position # None => last_face_position > 0
    /\ frame_width # None => frame_width > 0
    /\ FLe(F0_2, sensitivity)
    /\ (frontend = "cli" /\ frame_width # None)
          => FGt(MapperDivisor(frame_width, calibrated, calibration_center_x,
                               sensitivity), FZero)

\* C27: the frame loop made an update with a calibrated center and a raised
\* sensitivity
C27_CalibratedUpdate ==
    /\ frontend = "cli"
    /\ calibrated
    /\ calibration_center_x # None
    /\ sensitivity # F0_8
    /\ calls.last.op = "set"
    /\ calls.last.why = "update"
    /\ last_face_position # calibration_center_x

\* C24, as stated: a failure of the cartoon filter on a frame switches the
\* filter off, so that it is not attempted on the later frames, and a
\* failure of the preview switches the preview off; the frame loop goes on
\* in both cases.
C24_FailedFeatureDisabled ==
    /\ [][CliFilterFails => (~use_cartoon_filter' /\ CliRunning')]_vars
    /\ [][CliPreviewFails => (~show_preview' /\ CliRunning')]_vars

\* a Quit was given and track_head has not finished
StopRequested ==
    /\ frontend = "cli"
    /\ ~running
    /\ tpc[1] \in {"loop", "detect", "preview", "restore"}

\* track_head has returned after releasing the camera and making its one
\* restoration call
StoppedAndRestored ==
    /\ tpc[1] = "done"
    /\ cap = "released"
    /\ calls.restores = 1

\* C23: cancellation is cooperative and completes.  Each Quit (key 'q',
\* terminal 'q', the interrupt of the main block) clears the running flag,
\* and the flag stays cleared; with the flag cleared the frame loop begins
\* no iteration: the one in flight runs to its end and the loop test leads
\* to the teardown.  track_head is never blocked: at each position before
\* the teardown one of its steps is possible (the teardown itself, CliRestore,
\* has no condition), and only its steps move it.  Under LiveSpec the
\* teardown is then reached, makes the restoration call and track_head
\* returns.
C23_QuitCompletes ==
    /\ [][(CliKeyQuit \/ InputQuit \/ CliInterrupt) => ~running']_vars
    /\ [][(frontend = "cli" /\ ~running) => ~running']_vars
    /\ [][(frontend = "cli" /\ ~running /\ tpc[1] = "loop")
             => tpc'[1] \in {"loop", "restore"}]_vars
    /\ [][(frontend = "cli" /\ ~running /\ tpc[1] \in {"detect", "preview"})
             => tpc'[1] \in {tpc[1], "preview", "loop", "restore"}]_vars
    /\ [][(tpc' # tpc) => TrackHead]_vars
    /\ [](CliAt("new") => ENABLED (CliStart \/ CliStartFails))
    /\ [](CliAt("loop") => ENABLED (CliNoFace \/ CliLoopExit))
    /\ [](CliAt("detect") => ENABLED CliNoFace)
    /\ [](CliAt("preview")
             => ENABLED (CliNoPreview \/ CliNoKey \/ CliPreviewFails))
    /\ (StopRequested ~> StoppedAndRestored)

\* C23: 'q' was typed on the terminal while an iteration was in flight, the
\* iteration ended, the loop test found the flag cleared, and the teardown
\* restored the balance
C23_StoppedFromTerminal ==
    /\ StoppedAndRestored
    /\ ~running
    /\ exit_cause = "stopped"
    /\ ipc = "done"
    /\ last_face_position # None
    /\ calls.last.why = "restore"

====
